---- MODULE Spec2Model ----
(***************************************************************************)
(* Alembic revision 3da3fcab826a, "delete orphaned submissions and         *)
(* replies": upgrade() selects the rows of submissions and replies whose   *)
(* source_id is dangling or NULL, deletes each one and hands its file to   *)
(* the rq worker queue for srm.                                            *)
(***************************************************************************)
EXTENDS Integers, Sequences, FiniteSets, TLC

\* Bounds of the model: the rows of submissions and replies together, and
\* the number of times upgrade() is called.
MaxRows == 3
MaxRuns == 2

\* SQL NULL in the source_id column (ids are positive).
NULL == 0

\* Ids a row of sources may have.
SourceIds == {1}
\* Values of a source_id column: NULL, the id of a source that may exist,
\* or an id no source has.
SourceRefs == {NULL, 1, 2}
Filenames == 1..MaxRows
\* Directories of the store a file may be in: a filename resolves to no
\* file, to one, or to more than one.
FilesystemIds == {1, 2}

VARIABLES
    sources,             \* ids of the rows of the sources table
    submissions,         \* rows of the submissions table
    replies,             \* rows of the replies table
    files,               \* files in the store: <<filesystem id, filename>>
    raise_errors,        \* SECUREDROP_ENV != "prod"
    config_bound,        \* "from sdconfig import config" succeeded
    queue,               \* rq_worker_queue: paths handed to srm, in order
    orphan_submissions,  \* upgrade()'s local "submissions" (fetchall)
    orphan_replies,      \* upgrade()'s local "replies" (fetchall)
    file_path,           \* upgrade()'s local "file_path"
    pc,                  \* position in upgrade()
    i,                   \* index of the row the current loop is at
    error,               \* where an unclassified exception was raised
    log,                 \* what happened to each row this run processed
    entry,               \* tables and queue when this run of upgrade() began
    run                  \* how many times upgrade() has been called

vars == <<sources, submissions, replies, files, raise_errors, config_bound,
          queue, orphan_submissions, orphan_replies, file_path, pc, i,
          error, log, entry, run>>

Row(id, filename, source_id) ==
    [id |-> id, filename |-> filename, source_id |-> source_id]

Range(s) == {s[k] : k \in 1..Len(s)}

----------------------------------------------------------------------------
\* The orphan query.

\* SQL "x NOT IN (SELECT id FROM sources)" in three-valued logic: TRUE over
\* an empty subquery whatever x is, UNKNOWN for a NULL x otherwise.
NotIn(x, ids) ==
    IF ids = {} THEN "TRUE"
    ELSE IF x = NULL THEN "UNKNOWN"
    ELSE IF x \in ids THEN "FALSE" ELSE "TRUE"

\* A result set in the order the engine returns it (by id).
RECURSIVE ById(_)
ById(rows) ==
    IF rows = {} THEN <<>>
    ELSE LET first == CHOOSE r \in rows : \A q \in rows : r.id <= q.id
         IN  <<first>> \o ById(rows \ {first})

\* SELECT ... WHERE source_id NOT IN (SELECT id FROM sources)
DanglingAllRows(table) == ById(table)
DanglingRows(table) ==
    ById({r \in table : NotIn(r.source_id, sources) = "TRUE"})

\* SELECT ... WHERE source_id IS NULL
NullRows(table) == ById({r \in table : r.source_id = NULL})

\* UNION removes duplicate rows.
Union(s, t) == s \o SelectSeq(t, LAMBDA r : r \notin Range(s))

raw_sql_grab_orphaned_objects(table) ==
    Union(DanglingRows(table), NullRows(table))

----------------------------------------------------------------------------
\* The storage resolver: the files whose name is filename, whatever
\* filesystem id they are stored under.
path_without_filesystem_id(filename) ==
    LET found == {p \in files : p[2] = filename}
    IN  IF found = {} THEN [raises |-> "NoFileFoundException", path |-> <<>>]
        ELSE IF Cardinality(found) > 1
             THEN [raises |-> "TooManyFilesException", path |-> <<>>]
             ELSE [raises |-> "none", path |-> CHOOSE p \in found : TRUE]

----------------------------------------------------------------------------
Init ==
    /\ sources \in SUBSET SourceIds
    /\ \E ns \in 0..MaxRows, nr \in 0..MaxRows :
       ns + nr <= MaxRows /\
       \E sref \in [1..ns -> SourceRefs], rref \in [1..nr -> SourceRefs] :
       \E name \in [1..(ns + nr) -> Filenames] :
       \E matches \in [Filenames -> 0..Cardinality(FilesystemIds)] :
          \* every row has its own backing file name
          /\ \A a, b \in 1..(ns + nr) : a < b => name[a] < name[b]
          /\ \A f \in Filenames :
                f \notin {name[k] : k \in 1..(ns + nr)} => matches[f] = 0
          /\ submissions = {Row(k, name[k], sref[k]) : k \in 1..ns}
          /\ replies = {Row(k, name[ns + k], rref[k]) : k \in 1..nr}
          /\ files = {p \in FilesystemIds \X Filenames : p[1] <= matches[p[2]]}
    /\ raise_errors \in BOOLEAN
    /\ config_bound \in BOOLEAN
    \* in strict mode a failed import of sdconfig fails the module's import
    /\ raise_errors => config_bound
    /\ queue = <<>>
    /\ orphan_submissions = <<>>
    /\ orphan_replies = <<>>
    /\ file_path = <<>>
    /\ pc = "start"
    /\ i = 0
    /\ error = "none"
    /\ log = <<>>
    /\ entry = [submissions |-> submissions, replies |-> replies, queue |-> <<>>]
    /\ run = 1

\* The outer "except:": re-raise in strict mode, swallow otherwise.
ExceptRaise(where) ==
    /\ error' = where
    /\ pc' = "raised"
ExceptSwallow(where) ==
    /\ error' = where
    /\ pc' = "done"
Except(where) ==
    /\ error' = where
    /\ pc' = IF raise_errors THEN "raised" ELSE "done"

\* Where the loops go next.
FirstReply ==
    IF Len(orphan_replies) > 0 THEN <<"rep_delete", 1>> ELSE <<"done", 0>>
FirstSubmission ==
    IF Len(orphan_submissions) > 0 THEN <<"sub_delete", 1>> ELSE FirstReply
NextSubmissionStop == <<"done", 0>>
NextSubmission ==
    IF i < Len(orphan_submissions) THEN <<"sub_delete", i + 1>> ELSE FirstReply
NextReply ==
    IF i < Len(orphan_replies) THEN <<"rep_delete", i + 1>> ELSE <<"done", 0>>

Goto(where) ==
    /\ pc' = where[1]
    /\ i' = where[2]

\* DELETE FROM <table> WHERE id=:id
DeleteOthers(table, id) == {r \in table : r.id = id}
DeleteById(table, id) == {r \in table : r.id # id}

Logged(table, row, outcome) ==
    Append(log, [table |-> table, row |-> row, outcome |-> outcome])

\* upgrade(): the two orphan queries.
Select ==
    /\ pc = "start"
    /\ orphan_submissions' = raw_sql_grab_orphaned_objects(submissions)
    /\ orphan_replies' = raw_sql_grab_orphaned_objects(replies)
    /\ pc' = "create_app"
    /\ UNCHANGED <<sources, submissions, replies, files, raise_errors,
                   config_bound, queue, file_path, i, error, log, entry, run>>

\* app = create_app(config): a NameError when config is unbound, or whatever
\* create_app raises.
CreateApp ==
    /\ pc = "create_app"
    /\ \/ /\ config_bound
          /\ Goto(FirstSubmission)
          /\ UNCHANGED error
       \/ /\ Except("create_app")
          /\ UNCHANGED i
    /\ UNCHANGED <<sources, submissions, replies, files, raise_errors,
                   config_bound, queue, orphan_submissions, orphan_replies,
                   file_path, log, entry, run>>

----------------------------------------------------------------------------
\* The loop over the orphan submissions.

\* DELETE FROM submissions WHERE id=:id, before the file is looked for.
DeleteSubmissionSkipped ==
    /\ pc = "sub_delete"
    /\ pc' = "sub_resolve"
    /\ UNCHANGED <<sources, submissions, replies, files, raise_errors,
                   config_bound, queue, orphan_submissions, orphan_replies,
                   file_path, i, error, log, entry, run>>
DeleteSubmission ==
    /\ pc = "sub_delete"
    /\ submissions' = DeleteById(submissions, orphan_submissions[i].id)
    /\ pc' = "sub_resolve"
    /\ UNCHANGED <<sources, replies, files, raise_errors, config_bound,
                   queue, orphan_submissions, orphan_replies, file_path, i,
                   error, log, entry, run>>

\* file_path = app.storage.path_without_filesystem_id(submission.filename)
\* with the handlers of NoFileFoundException and TooManyFilesException; any
\* other exception goes to the outer handler.
ResolveSubmission ==
    /\ pc = "sub_resolve"
    /\ LET submission == orphan_submissions[i]
           found == path_without_filesystem_id(submission.filename)
       IN  \/ /\ Except("sub_resolve")
              /\ log' = Logged("submissions", submission, "error")
              /\ UNCHANGED <<submissions, file_path, i>>
           \/ /\ found.raises = "NoFileFoundException"
              /\ submissions' = DeleteById(submissions, submission.id)
              /\ log' = Logged("submissions", submission, "NoFileFoundException")
              /\ Goto(NextSubmission)
              /\ UNCHANGED <<file_path, error>>
           \/ /\ found.raises = "TooManyFilesException"
              /\ log' = Logged("submissions", submission, "TooManyFilesException")
              /\ Goto(NextSubmission)
              /\ UNCHANGED <<submissions, file_path, error>>
           \/ /\ found.raises = "none"
              /\ file_path' = found.path
              /\ pc' = "sub_enqueue"
              /\ UNCHANGED <<submissions, i, error, log>>
    /\ UNCHANGED <<sources, replies, files, raise_errors, config_bound,
                   queue, orphan_submissions, orphan_replies, entry, run>>

\* rq_worker_queue.enqueue(srm, file_path)
EnqueueSubmission ==
    /\ pc = "sub_enqueue"
    /\ \/ /\ Except("sub_enqueue")
          /\ log' = Logged("submissions", orphan_submissions[i], "error")
          /\ UNCHANGED <<queue, i>>
       \/ /\ queue' = Append(queue, file_path)
          /\ log' = Logged("submissions", orphan_submissions[i], "enqueued")
          /\ Goto(NextSubmission)
          /\ UNCHANGED error
    /\ UNCHANGED <<sources, submissions, replies, files, raise_errors,
                   config_bound, orphan_submissions, orphan_replies,
                   file_path, entry, run>>

----------------------------------------------------------------------------
\* The loop over the orphan replies.

DeleteReply ==
    /\ pc = "rep_delete"
    /\ replies' = DeleteById(replies, orphan_replies[i].id)
    /\ pc' = "rep_resolve"
    /\ UNCHANGED <<sources, submissions, files, raise_errors, config_bound,
                   queue, orphan_submissions, orphan_replies, file_path, i,
                   error, log, entry, run>>

ResolveReply ==
    /\ pc = "rep_resolve"
    /\ LET reply == orphan_replies[i]
           found == path_without_filesystem_id(reply.filename)
       IN  \/ /\ Except("rep_resolve")
              /\ log' = Logged("replies", reply, "error")
              /\ UNCHANGED <<replies, file_path, i>>
           \/ /\ found.raises = "NoFileFoundException"
              /\ replies' = DeleteById(replies, reply.id)
              /\ log' = Logged("replies", reply, "NoFileFoundException")
              /\ Goto(NextReply)
              /\ UNCHANGED <<file_path, error>>
           \/ /\ found.raises = "TooManyFilesException"
              /\ log' = Logged("replies", reply, "TooManyFilesException")
              /\ Goto(NextReply)
              /\ UNCHANGED <<replies, file_path, error>>
           \/ /\ found.raises = "none"
              /\ file_path' = found.path
              /\ pc' = "rep_enqueue"
              /\ UNCHANGED <<replies, i, error, log>>
    /\ UNCHANGED <<sources, submissions, files, raise_errors, config_bound,
                   queue, orphan_submissions, orphan_replies, entry, run>>

EnqueueReply ==
    /\ pc = "rep_enqueue"
    /\ \/ /\ Except("rep_enqueue")
          /\ log' = Logged("replies", orphan_replies[i], "error")
          /\ UNCHANGED <<queue, i>>
       \/ /\ queue' = Append(queue, file_path)
          /\ log' = Logged("replies", orphan_replies[i], "enqueued")
          /\ Goto(NextReply)
          /\ UNCHANGED error
    /\ UNCHANGED <<sources, submissions, replies, files, raise_errors,
                   config_bound, orphan_submissions, orphan_replies,
                   file_path, entry, run>>

----------------------------------------------------------------------------
\* upgrade() returned and is called again, nothing else writing in between.
Rerun ==
    /\ pc = "done"
    /\ run < MaxRuns
    /\ run' = run + 1
    /\ pc' = "start"
    /\ i' = 0
    /\ error' = "none"
    /\ log' = <<>>
    /\ file_path' = <<>>
    /\ entry' = [submissions |-> submissions, replies |-> replies,
                 queue |-> queue]
    /\ UNCHANGED <<sources, submissions, replies, files, raise_errors,
                   config_bound, queue, orphan_submissions, orphan_replies>>

Next ==
    \/ Select
    \/ CreateApp
    \/ DeleteSubmission
    \/ ResolveSubmission
    \/ EnqueueSubmission
    \/ DeleteReply
    \/ ResolveReply
    \/ EnqueueReply
    \/ Rerun

Spec == Init /\ [][Next]_vars

TypeOK ==
    /\ pc \in {"start", "create_app", "sub_delete", "sub_resolve",
               "sub_enqueue", "rep_delete", "rep_resolve", "rep_enqueue",
               "done", "raised"}
    /\ run \in 1..MaxRuns

----------------------------------------------------------------------------
\* What the properties below speak of.

\* A row whose source_id is NULL or the id of no source.
IsOrphan(r) == r.source_id = NULL \/ r.source_id \notin sources

EntryOrphanSubmissions == {r \in entry.submissions : IsOrphan(r)}
EntryOrphanReplies == {r \in entry.replies : IsOrphan(r)}

\* The files a filename resolves to.
Candidates(filename) == {p \in files : p[2] = filename}

\* The erase tasks this run of upgrade() has enqueued.
NewTasks == SubSeq(queue, Len(entry.queue) + 1, Len(queue))

TableOf(name) == IF name = "submissions" THEN submissions ELSE replies

RowErrors == {"sub_resolve", "sub_enqueue", "rep_resolve", "rep_enqueue"}
SubmissionStages == {"sub_delete", "sub_resolve", "sub_enqueue"}
ReplyStages == {"rep_delete", "rep_resolve", "rep_enqueue"}

\* The orphan rows this run selected and has not reached when it stopped on
\* an unclassified error at row i of one of the loops.
LaterSubmissions ==
    IF error \in {"sub_resolve", "sub_enqueue"}
    THEN {orphan_submissions[k] : k \in (i + 1)..Len(orphan_submissions)}
    ELSE {}
LaterReplies ==
    IF error \in {"sub_resolve", "sub_enqueue"}
    THEN Range(orphan_replies)
    ELSE {orphan_replies[k] : k \in (i + 1)..Len(orphan_replies)}

\* upgrade() is working on the n-th row it selected (submissions first).
InRow(n) ==
    IF n <= Len(orphan_submissions)
    THEN pc \in SubmissionStages /\ i = n
    ELSE pc \in ReplyStages /\ i = n - Len(orphan_submissions)

\* The row logged last was handled and upgrade() went on: it is at the next
\* selected row, or has returned without an error when there is none.
WentOn ==
    IF Len(log) < Len(orphan_submissions) + Len(orphan_replies)
    THEN InRow(Len(log) + 1)
    ELSE pc = "done" /\ error = "none"

----------------------------------------------------------------------------
\* C1: every row of submissions and of replies that is an orphan when
\* upgrade() starts is gone from its table once upgrade() has returned.
C1_OrphansGone ==
    pc = "done" =>
        /\ \A r \in EntryOrphanSubmissions : r \notin submissions
        /\ \A r \in EntryOrphanReplies : r \notin replies

C3_ExactlyOneTask ==
    pc = "done" =>
        LET unique == {r \in EntryOrphanSubmissions \cup EntryOrphanReplies :
                          Cardinality(Candidates(r.filename)) = 1}
        IN  /\ \A r \in unique :
                  Cardinality({k \in 1..Len(NewTasks) :
                                  NewTasks[k] \in Candidates(r.filename)}) = 1
            /\ \A k \in 1..Len(NewTasks) :
                  \E r \in unique : NewTasks[k] \in Candidates(r.filename)

\* Supporting C3: no row is selected twice (the row both branches of the
\* UNION select is returned once) and no two erase tasks of a run are for
\* the same filename.
SelectedOnce ==
    /\ \A a, b \in 1..Len(orphan_submissions) :
          orphan_submissions[a] = orphan_submissions[b] => a = b
    /\ \A a, b \in 1..Len(orphan_replies) :
          orphan_replies[a] = orphan_replies[b] => a = b
    /\ \A a, b \in 1..Len(NewTasks) : NewTasks[a][2] = NewTasks[b][2] => a = b

\* C4: a second run of upgrade() deletes no row and enqueues no erase task.
C4_SecondRunNoop ==
    run >= 2 =>
        /\ submissions = entry.submissions
        /\ replies = entry.replies
        /\ queue = entry.queue

\* C5: an orphan row whose file is missing (NoFileFoundException) is
\* deleted, gets no erase task, raises no error, and upgrade() goes on to
\* the next row.
C5_MissingFile ==
    \A k \in 1..Len(log) : log[k].outcome = "NoFileFoundException" =>
        /\ Candidates(log[k].row.filename) = {}
        /\ log[k].row \notin TableOf(log[k].table)
        /\ \A n \in 1..Len(NewTasks) : NewTasks[n][2] # log[k].row.filename
        /\ k = Len(log) => WentOn

C5_Witness ==
    /\ pc \in {"sub_delete", "rep_delete"}
    /\ Len(log) > 0
    /\ log[Len(log)].outcome = "NoFileFoundException"
    /\ log[Len(log)].row \in entry.submissions
    /\ ~raise_errors

\* C6: an orphan row whose filename resolves to two or more files
\* (TooManyFilesException) is deleted, no erase task is enqueued for any of
\* the files, no error is raised, and upgrade() goes on to the next row.
C6_TooManyFiles ==
    \A k \in 1..Len(log) : log[k].outcome = "TooManyFilesException" =>
        /\ Cardinality(Candidates(log[k].row.filename)) >= 2
        /\ log[k].row \notin TableOf(log[k].table)
        /\ \A n \in 1..Len(NewTasks) :
              NewTasks[n] \notin Candidates(log[k].row.filename)
        /\ k = Len(log) => WentOn

C6_Witness ==
    /\ pc \in {"sub_delete", "rep_delete"}
    /\ Len(log) > 0
    /\ log[Len(log)].outcome = "TooManyFilesException"
    /\ log[Len(log)].row \in entry.submissions
    /\ ~raise_errors

\* C7: in best-effort mode an unclassified error at one orphan row does not
\* stop the run: every orphan submission after that row and every orphan
\* reply is deleted by the time upgrade() returns.
C7_LaterRowsDeleted ==
    (~raise_errors /\ pc = "done" /\ error \in RowErrors) =>
        /\ \A r \in LaterSubmissions : r \notin submissions
        /\ \A r \in LaterReplies : r \notin replies

\* C8: in strict mode an unclassified error is propagated and upgrade()
\* stops there: the rows after the failing one are still in their tables and
\* every erase task of the run is from a row before it. In best-effort mode
\* nothing is propagated.
C8_StrictPropagates ==
    /\ (raise_errors /\ error # "none") => pc = "raised"
    /\ (pc = "raised" /\ error \in RowErrors) =>
          /\ \A r \in LaterSubmissions : r \in submissions
          /\ \A r \in LaterReplies : r \in replies
          /\ \A n \in 1..Len(NewTasks) :
                /\ \A r \in LaterSubmissions \cup LaterReplies :
                      NewTasks[n][2] # r.filename
                /\ NewTasks[n][2] # log[Len(log)].row.filename
    /\ ~raise_errors => pc # "raised"

C8_Witness ==
    /\ pc = "raised"
    /\ error = "sub_enqueue"
    /\ i = 1
    /\ LaterSubmissions # {}
    /\ LaterReplies # {}

\* C9: every erase task in the queue is for a row that is already absent
\* from its table, in every state of upgrade().
C9_DeleteBeforeEnqueue ==
    /\ \A k \in 1..Len(queue) :
          \A r \in submissions \cup replies : queue[k][2] # r.filename
    /\ \A n \in 1..Len(NewTasks) :
          \/ \E r \in EntryOrphanSubmissions :
                r.filename = NewTasks[n][2] /\ r \notin submissions
          \/ \E r \in EntryOrphanReplies :
                r.filename = NewTasks[n][2] /\ r \notin replies

C9_Witness ==
    /\ pc = "sub_resolve"
    /\ i = 2
    /\ Len(NewTasks) = 1
    /\ orphan_submissions[1] \notin submissions

\* C10: when the application cannot be created in best-effort mode,
\* upgrade() returns without raising, and has deleted no row and enqueued no
\* erase task.
C10_NoAppNoChange ==
    (~raise_errors /\ error = "create_app") =>
        /\ pc = "done"
        /\ submissions = entry.submissions
        /\ replies = entry.replies
        /\ queue = entry.queue
        /\ log = <<>>

C10_Witness ==
    /\ ~config_bound
    /\ error = "create_app"
    /\ pc = "done"
    /\ Len(orphan_submissions) > 0
    /\ Len(orphan_replies) > 0

====
